---- MODULE Spec2Model ----
(***************************************************************************)
(* repo-updater: the per-repository update pipeline (runner.ts) and the    *)
(* batch orchestrator (index.ts) as one state machine.                     *)
(*                                                                         *)
(* One action per awaited executor call of updateRepo / performCleanup,    *)
(* one per synchronous stretch of main.  The executor (execFn) is the      *)
(* environment: every call may return Ok (with some stdout) or Err.  The   *)
(* git state of the repository being processed (head, localBranches,       *)
(* remoteBranches) changes only by the commands that returned Ok.          *)
(*                                                                         *)
(* Result.gen / Result.await come from the better-result package, which is *)
(* not part of the repository.  The model follows the control flow that    *)
(* updateRepo is written for: an Err yielded inside the try block reaches  *)
(* the catch block (performCleanup, then rethrow), and the rethrown error  *)
(* is the Err that updateRepo resolves to; an Err yielded before the try   *)
(* block is returned directly.                                             *)
(***************************************************************************)
EXTENDS Integers, Sequences, FiniteSets, TLC

\* ------------------------------------------------------------------ bounds
MaxRepos == 2
MaxOutLen == 2

\* ------------------------------------------------------- the environment
\* Paths the user may name.  ValidPaths exist and hold a .git entry.
ValidPaths == {"/r1", "/r2"}
NotGitPaths == {"/nogit"}
MissingPaths == {"/missing"}
Paths == ValidPaths \cup NotGitPaths \cup MissingPaths
existsSync(p) == p \in ValidPaths \cup NotGitPaths
hasDotGitAlways(p) == TRUE
hasDotGit(p) == p \in ValidPaths

LockFiles == {"package-lock.json", "pnpm-lock.yaml", "yarn.lock", "bun.lock"}

\* Lock files found in each repository directory.
lockFilesOf(repo) ==
  IF repo = "/r1" THEN {"package-lock.json", "bun.lock"} ELSE {"bun.lock"}

\* Files a directory may hold when detectPackageManager inspects it.
FileUniverse == LockFiles \cup {"package.json", "bun.lockb"}

\* how often detectPackageManager is called on one directory
MaxDetections == 2

Dates == {"01-01-2025"}
Timestamps == {"1735689600000"}
\* the branch checked out when a pipeline starts; the repository holds both
InitialHeads == {"main", "feature"}
Platforms == {"win32", "darwin", "linux"}

OriginPrefix == "refs/remotes/origin/"
\* stdout of `git symbolic-ref refs/remotes/origin/HEAD`, as a sequence of tokens
SymRefOutputs ==
  { <<OriginPrefix, "main">>, <<OriginPrefix, "develop">>, <<"HEAD">>,
    <<OriginPrefix>> }

StatusOutputs == {"", "M package.json"}

\* stdout of `gh pr create`, as a sequence of characters
Chars == {" ", "u"}
RECURSIVE SeqsUpTo(_, _)
SeqsUpTo(S, n) ==
  IF n = 0 THEN { <<>> }
  ELSE LET shorter == SeqsUpTo(S, n - 1)
       IN shorter \cup { Append(s, c) : s \in { t \in shorter : Len(t) = n - 1 }, c \in S }
GhOutputs == SeqsUpTo(Chars, MaxOutLen)

\* ------------------------------------------------------------ pure helpers
RECURSIVE Join(_, _)
\* Array.prototype.join
Join(parts, sep) ==
  IF Len(parts) = 0 THEN ""
  ELSE IF Len(parts) = 1 THEN parts[1]
  ELSE parts[1] \o sep \o Join(Tail(parts), sep)

IsSpace(c) == c \in {" ", "\n", "\t"}

RECURSIVE TrimStart(_)
TrimStart(s) ==
  IF Len(s) > 0 /\ IsSpace(s[1]) THEN TrimStart(Tail(s)) ELSE s

RECURSIVE TrimEnd(_)
TrimEnd(s) ==
  IF Len(s) > 0 /\ IsSpace(s[Len(s)]) THEN TrimEnd(SubSeq(s, 1, Len(s) - 1)) ELSE s

\* String.prototype.trim
Trim(s) == TrimEnd(TrimStart(s))

\* DEFAULT_BRANCH_REGEX = /refs\/remotes\/origin\/(.+)$/ applied to stdout:
\* the leftmost position where the prefix is followed by at least one
\* character and no line break up to the end of the string.
MatchPositions(stdout) ==
  { i \in 1..Len(stdout) :
      /\ stdout[i] = OriginPrefix
      /\ i < Len(stdout)
      /\ \A j \in (i + 1)..Len(stdout) : stdout[j] # "\n" }

Min(S) == CHOOSE x \in S : \A y \in S : x <= y

parseDefaultBranchAlwaysMain(stdout) == "main"

\* runner.ts: defaultBranch = "main", replaced by the capture group on a match
parseDefaultBranch(stdout) ==
  IF MatchPositions(stdout) = {} THEN "main"
  ELSE Join(SubSeq(stdout, Min(MatchPositions(stdout)) + 1, Len(stdout)), "")

checksBunFirst ==
  << [file |-> "bun.lock", pm |-> "bun"],
     [file |-> "package-lock.json", pm |-> "npm"],
     [file |-> "pnpm-lock.yaml", pm |-> "pnpm"],
     [file |-> "yarn.lock", pm |-> "yarn"] >>

\* the checks array of detectPackageManager, in its order
checks ==
  << [file |-> "package-lock.json", pm |-> "npm"],
     [file |-> "pnpm-lock.yaml", pm |-> "pnpm"],
     [file |-> "yarn.lock", pm |-> "yarn"],
     [file |-> "bun.lock", pm |-> "bun"] >>

\* the for loop over checks on a directory holding `files`: the first check
\* whose file exists decides, and "npm" is the fallback
detectIn(files) ==
  LET hits == { i \in 1..Len(checks) : checks[i].file \in files }
  IN IF hits = {} THEN "npm" ELSE checks[Min(hits)].pm

detectPackageManager(repo) == detectIn(lockFilesOf(repo))

getUpdateCommand(pm) ==
  CASE pm = "npm" -> <<"npm", "update">>
    [] pm = "pnpm" -> <<"pnpm", "update", "--latest">>
    [] pm = "yarn" -> <<"yarn", "upgrade">>
    [] pm = "bun" -> <<"bun", "update", "--latest">>

getInstallCommand(pm) ==
  CASE pm = "npm" -> <<"npm", "install">>
    [] pm = "pnpm" -> <<"pnpm", "install">>
    [] pm = "yarn" -> <<"yarn", "install">>
    [] pm = "bun" -> <<"bun", "install">>

\* branch = `chore/dep-updates-${date}-${timestamp}`
branchName(d, ts) == "chore/dep-updates-" \o d \o "-" \o ts

\* The commands updateRepo and performCleanup pass to execFn
SymRefCmd == <<"git", "symbolic-ref", "refs/remotes/origin/HEAD">>
CheckoutCmd(b) == <<"git", "checkout", b>>
PullCmd == <<"git", "pull">>
CreateBranchCmd(b) == <<"git", "checkout", "-b", b>>
StatusCmd == <<"git", "status", "--porcelain">>
DeleteBranchCmdOtherName(b) == <<"git", "branch", "-D", "chore/dep-updates">>
DeleteBranchCmd(b) == <<"git", "branch", "-D", b>>
AddCmd == <<"git", "add", "-A">>
CommitCmd(d) == <<"git", "commit", "-m", "dep updates " \o d>>
PushCmd(b) == <<"git", "push", "-u", "origin", b>>
PrCreateCmdNoBody(d) ==
  <<"gh", "pr", "create", "--title", "Dep Updates " \o d, "--body", "">>
PrCreateCmd(d) ==
  <<"gh", "pr", "create", "--title", "Dep Updates " \o d, "--body", "Dep Updates " \o d>>
DeleteRemoteCmd(b) == <<"git", "push", "origin", "--delete", b>>

\* new CommandFailedError({ message, command: cmd.join(" "), stderr })
CommandFailedError(cmd) ==
  [tag |-> "CommandFailedError", command |-> Join(cmd, " ")]

PlaceholderUrl == <<"https://github.com/example/repo/pull/0">>

\* value of a stdout local before its step has run
NotRun == "(not run)"
NotRunSeq == <<"(not run)">>

\* configPath of ParsedArgs when -c was not given
Undefined == "(undefined)"
ConfigPathArgs == {Undefined, "/cfg.json"}

NoAnswer == "(none)"
NoDate == "(none)"
NoClock == [date |-> 0, month |-> 0, fullYear |-> 0]
NoProcess == [runtime |-> "(none)"]
Unread == [kind |-> "unread"]

VARIABLES
  mpc,          \* position of main
  args,         \* ParsedArgs: help, dryRun, positional
  valid,        \* validateRepos(...).valid
  missing,      \* validateRepos(...).missing
  date,         \* getDate(), computed once per run of main
  idx,          \* number of repositories handleRepoProcessing is done with
  prUrls,       \* main's prUrls array
  exitCode,     \* argument of process.exit, -1 while running
  logWarn,      \* log.warn calls of main
  invoked,      \* updateFn invocations: <<repo, dryRun>>, in order
  outcomes,     \* values processRepo returned, in order
  spawned,      \* browser-launch commands spawned by openURLs
  answer,       \* what confirm() resolved to, NoAnswer before the prompt
  configSeen,   \* what loadConfig returned to resolveRepos, Unread if not called
  resolvedRepos, \* main's repos: the list resolveRepos returned
  dryRunSteps,  \* the step lines the latest dryRunRepo printed
  lockDir,      \* files of a directory handed to detectPackageManager
  detections,   \* results of detectPackageManager on lockDir, in call order
  fsys,         \* content of the files loadConfig may look at
  configPathIn, \* configPath handed to loadConfig
  loaded,       \* what loadConfig returned, NoResult before the call
  configRead,   \* the file loadConfig read, Undefined if none
  now,          \* the clock reading getDate gets from new Date()
  dateOut,      \* what getDate returned, NoDate before the call
  proc,         \* how the process exec spawns will end
  execOut,      \* what exec resolved to, NoResult before the call
  argv,         \* the argument list handed to parseArgs
  parsed,       \* what parseArgs returned, NoResult before the call
  upc,          \* position of the running updateRepo
  repo,         \* options.repo of the running updateRepo
  branch,       \* working-branch name of the running updateRepo
  pm,           \* detected package manager
  defaultBranch,
  branchCreated,
  branchPushed,
  statusOut,    \* stdout of the status step
  prOut,        \* stdout of the gh pr create step
  thrown,       \* error caught by the catch block, NoError if none
  result,       \* what updateRepo resolved to, NoResult while running
  calls,        \* commands passed to execFn by the current updateRepo, in order
  failedCalls,  \* indices of calls that returned Err
  warnings,     \* console.warn calls of performCleanup (the failed commands)
  symrefOut,    \* stdout of the symbolic-ref step
  inflight,     \* executor commands issued whose result has not come back
  head,         \* branch checked out in the repository being processed
  localBranches,  \* its local branches
  remoteBranches  \* the branches this run pushed to its remote

detectVars == <<lockDir, detections>>
configVars == <<fsys, configPathIn, loaded, configRead>>
dateVars == <<now, dateOut>>
execVars == <<proc, execOut>>
argsVars == <<argv, parsed>>
pureVars == <<detectVars, configVars, dateVars, execVars, argsVars>>
mainVars == <<mpc, args, valid, missing, date, idx, prUrls, exitCode, logWarn,
              invoked, outcomes, spawned, answer, configSeen, resolvedRepos,
              dryRunSteps, pureVars>>
runVars == <<upc, repo, branch, pm, defaultBranch, branchCreated, branchPushed,
             statusOut, prOut, thrown, result, calls, failedCalls, warnings,
             symrefOut, inflight>>
gitVars == <<head, localBranches, remoteBranches>>
vars == <<mainVars, runVars, gitVars>>
\* everything main and updateRepo work on
programVars == <<mpc, args, valid, missing, date, idx, prUrls, exitCode,
                 logWarn, invoked, outcomes, spawned, answer, configSeen,
                 resolvedRepos, dryRunSteps, runVars, gitVars>>

NoError == [tag |-> "none"]
NoResult == [kind |-> "pending"]
Ok(v) == [kind |-> "ok", value |-> v]
Err(e) == [kind |-> "err", error |-> e]

\* ------------------------------------------------------------ the executor
\* Effect on the repository of a command that exited with code 0.
gitAfter(cmd, g) ==
  IF cmd[1] # "git" THEN g
  ELSE IF cmd[2] = "checkout" /\ cmd[3] = "-b"
    THEN [g EXCEPT !.head = cmd[4], !.local = @ \cup {cmd[4]}]
  ELSE IF cmd[2] = "checkout" THEN [g EXCEPT !.head = cmd[3]]
  ELSE IF cmd[2] = "branch" /\ cmd[3] = "-D" THEN [g EXCEPT !.local = @ \ {cmd[4]}]
  ELSE IF cmd[2] = "push" /\ cmd[3] = "-u" THEN [g EXCEPT !.remote = @ \cup {cmd[5]}]
  ELSE IF cmd[2] = "push" /\ cmd[4] = "--delete" THEN [g EXCEPT !.remote = @ \ {cmd[5]}]
  ELSE g

\* execFn(cmd, repo): the call is recorded; a command that fails leaves the
\* repository as it was.
Exec(cmd, ok) ==
  /\ calls' = Append(calls, cmd)
  /\ failedCalls' = IF ok THEN failedCalls ELSE failedCalls \cup {Len(calls) + 1}
  /\ LET g == gitAfter(cmd, [head |-> head, local |-> localBranches,
                              remote |-> remoteBranches])
     IN IF ok
        THEN head' = g.head /\ localBranches' = g.local /\ remoteBranches' = g.remote
        ELSE UNCHANGED gitVars

\* ------------------------------------------------------------- updateRepo
cleanupRunsNever(created) == FALSE

cleanupRunsAlways(created) == TRUE

\* performCleanup's early return: cleanup commands run only if this holds
cleanupRuns(created) == created

rethrownMasked(e, cleanupErrors) ==
  IF Len(cleanupErrors) > 0 THEN cleanupErrors[Len(cleanupErrors)] ELSE e

\* The error updateRepo resolves to after the catch block: `throw e`
rethrown(e, cleanupErrors) == e

\* A step action is the return of the awaited command and the continuation
\* up to the next await: the command that returned is no longer in flight,
\* and the next one is issued unless updateRepo resolves.
afterReturn(n, nextPc) == IF nextPc = "returned" THEN n - 1 ELSE (n - 1) + 1

\* catch (e) { await performCleanup(...); throw e; }
Catch(e) ==
  /\ thrown' = e
  /\ IF cleanupRuns(branchCreated)
     THEN upc' = "cl_checkout" /\ result' = result
     ELSE upc' = "returned" /\ result' = Err(rethrown(e, warnings))

TryStepRetryOnce(here, cmd, ok, next) ==
  /\ upc = here
  /\ Exec(cmd, ok)
  /\ IF ok THEN upc' = next /\ thrown' = thrown /\ result' = result
     ELSE IF cmd \notin { calls[i] : i \in failedCalls }
     THEN upc' = here /\ thrown' = thrown /\ result' = result
     ELSE Catch(CommandFailedError(cmd))
  /\ inflight' = afterReturn(inflight, upc')

\* yield* Result.await(execFn(cmd, repo)) inside the try block
TryStep(here, cmd, ok, next) ==
  /\ upc = here
  /\ Exec(cmd, ok)
  /\ IF ok THEN upc' = next /\ thrown' = thrown /\ result' = result
     ELSE Catch(CommandFailedError(cmd))
  /\ inflight' = afterReturn(inflight, upc')

afterSymRefFailureFallback == "checkout"

\* yield* of a failed symbolic-ref query, outside the try block: updateRepo
\* resolves to that Err
afterSymRefFailure == "returned"

\* git symbolic-ref refs/remotes/origin/HEAD (before the try block)
DetectDefaultBranch ==
  /\ upc = "symref"
  /\ \/ \E out \in SymRefOutputs :
          /\ Exec(SymRefCmd, TRUE)
          /\ symrefOut' = out
          /\ defaultBranch' = parseDefaultBranch(out)
          /\ upc' = "checkout"
          /\ result' = result
     \/ /\ Exec(SymRefCmd, FALSE)
        /\ symrefOut' = symrefOut
        /\ defaultBranch' = defaultBranch
        /\ upc' = afterSymRefFailure
        /\ result' = IF afterSymRefFailure = "returned"
                      THEN Err(CommandFailedError(SymRefCmd)) ELSE result
  /\ inflight' = afterReturn(inflight, upc')
  /\ UNCHANGED <<mainVars, repo, branch, pm, branchCreated, branchPushed,
                 statusOut, prOut, thrown, warnings>>

CheckoutDefault ==
  /\ \E ok \in BOOLEAN : TryStep("checkout", CheckoutCmd(defaultBranch), ok, "pull")
  /\ UNCHANGED <<mainVars, symrefOut, repo, branch, pm, defaultBranch, branchCreated,
                 branchPushed, statusOut, prOut, warnings>>

Pull ==
  /\ \E ok \in BOOLEAN : TryStep("pull", PullCmd, ok, "branch")
  /\ UNCHANGED <<mainVars, symrefOut, repo, branch, pm, defaultBranch, branchCreated,
                 branchPushed, statusOut, prOut, warnings>>

CreateBranch ==
  /\ \E ok \in BOOLEAN :
       /\ TryStep("branch", CreateBranchCmd(branch), ok, "update")
       /\ branchCreated' = IF ok THEN TRUE ELSE branchCreated
  /\ UNCHANGED <<mainVars, symrefOut, repo, branch, pm, defaultBranch, branchPushed,
                 statusOut, prOut, warnings>>

Update ==
  /\ \E ok \in BOOLEAN : TryStep("update", getUpdateCommand(pm), ok, "install")
  /\ UNCHANGED <<mainVars, symrefOut, repo, branch, pm, defaultBranch, branchCreated,
                 branchPushed, statusOut, prOut, warnings>>

Install ==
  /\ \E ok \in BOOLEAN : TryStep("install", getInstallCommand(pm), ok, "status")
  /\ UNCHANGED <<mainVars, symrefOut, repo, branch, pm, defaultBranch, branchCreated,
                 branchPushed, statusOut, prOut, warnings>>

statusNextAlwaysAdd(out) == "add"

\* status.stdout === "" selects the no-changes short-circuit
statusNext(out) == IF out = "" THEN "nc_checkout" ELSE "add"

Status ==
  /\ \/ \E out \in StatusOutputs :
          /\ TryStep("status", StatusCmd, TRUE, statusNext(out))
          /\ statusOut' = out
     \/ /\ TryStep("status", StatusCmd, FALSE, "add")
        /\ statusOut' = statusOut
  /\ UNCHANGED <<mainVars, symrefOut, repo, branch, pm, defaultBranch, branchCreated,
                 branchPushed, prOut, warnings>>

NoChangesCheckout ==
  /\ \E ok \in BOOLEAN :
       TryStep("nc_checkout", CheckoutCmd(defaultBranch), ok, "nc_delete")
  /\ UNCHANGED <<mainVars, symrefOut, repo, branch, pm, defaultBranch, branchCreated,
                 branchPushed, statusOut, prOut, warnings>>

NoChangesDelete ==
  /\ upc = "nc_delete"
  /\ \/ /\ Exec(DeleteBranchCmd(branch), TRUE)
        /\ upc' = "returned"
        /\ thrown' = thrown
        /\ result' = Ok([repo |-> repo, status |-> "no-changes"])
     \/ /\ Exec(DeleteBranchCmd(branch), FALSE)
        /\ Catch(CommandFailedError(DeleteBranchCmd(branch)))
  /\ inflight' = afterReturn(inflight, upc')
  /\ UNCHANGED <<mainVars, symrefOut, repo, branch, pm, defaultBranch, branchCreated,
                 branchPushed, statusOut, prOut, warnings>>

Add ==
  /\ \E ok \in BOOLEAN : TryStep("add", AddCmd, ok, "commit")
  /\ UNCHANGED <<mainVars, symrefOut, repo, branch, pm, defaultBranch, branchCreated,
                 branchPushed, statusOut, prOut, warnings>>

Commit ==
  /\ \E ok \in BOOLEAN : TryStep("commit", CommitCmd(date), ok, "push")
  /\ UNCHANGED <<mainVars, symrefOut, repo, branch, pm, defaultBranch, branchCreated,
                 branchPushed, statusOut, prOut, warnings>>

Push ==
  /\ \E ok \in BOOLEAN :
       /\ TryStep("push", PushCmd(branch), ok, "pr")
       /\ branchPushed' = IF ok THEN TRUE ELSE branchPushed
  /\ UNCHANGED <<mainVars, symrefOut, repo, branch, pm, defaultBranch, branchCreated,
                 statusOut, prOut, warnings>>

prUrlOfUntrimmedEnd(out) == TrimStart(out)

\* prUrl: pr.stdout.trim()
prUrlOf(out) == Trim(out)

PrCreate ==
  /\ upc = "pr"
  /\ \/ \E out \in GhOutputs :
          /\ Exec(PrCreateCmd(date), TRUE)
          /\ prOut' = out
          /\ upc' = "returned"
          /\ thrown' = thrown
          /\ result' = Ok([repo |-> repo, status |-> "pr-created",
                           prUrl |-> prUrlOf(out)])
     \/ /\ Exec(PrCreateCmd(date), FALSE)
        /\ prOut' = prOut
        /\ Catch(CommandFailedError(PrCreateCmd(date)))
  /\ inflight' = afterReturn(inflight, upc')
  /\ UNCHANGED <<mainVars, symrefOut, repo, branch, pm, defaultBranch, branchCreated,
                 branchPushed, statusOut, warnings>>

\* --------------------------------------------------------- performCleanup
CleanupStepAbortOnFailure(here, cmd, ok, next) ==
  /\ upc = here
  /\ Exec(cmd, ok)
  /\ warnings' = IF ok THEN warnings ELSE Append(warnings, CommandFailedError(cmd))
  /\ upc' = IF ok THEN next ELSE "returned"
  /\ inflight' = afterReturn(inflight, upc')
  /\ UNCHANGED <<thrown, result>>

\* A cleanup command: its Err is logged with console.warn and dropped.
CleanupStep(here, cmd, ok, next) ==
  /\ upc = here
  /\ Exec(cmd, ok)
  /\ warnings' = IF ok THEN warnings ELSE Append(warnings, CommandFailedError(cmd))
  /\ upc' = next
  /\ inflight' = afterReturn(inflight, upc')
  /\ UNCHANGED <<thrown, result>>

afterCleanupCheckoutSkipRemote(pushed) == "cl_delete"
afterCleanupCheckoutAlwaysRemote(pushed) == "cl_remote"

\* after the checkout: the remote deletion only if (branchPushed)
afterCleanupCheckout(pushed) == IF pushed THEN "cl_remote" ELSE "cl_delete"

CleanupCheckout ==
  /\ \E ok \in BOOLEAN :
       CleanupStep("cl_checkout", CheckoutCmd(defaultBranch), ok,
                   afterCleanupCheckout(branchPushed))
  /\ UNCHANGED <<mainVars, symrefOut, repo, branch, pm, defaultBranch, branchCreated,
                 branchPushed, statusOut, prOut>>

CleanupDeleteRemote ==
  /\ \E ok \in BOOLEAN :
       CleanupStep("cl_remote", DeleteRemoteCmd(branch), ok, "cl_delete")
  /\ UNCHANGED <<mainVars, symrefOut, repo, branch, pm, defaultBranch, branchCreated,
                 branchPushed, statusOut, prOut>>

\* the last cleanup command, then `throw e`
CleanupDeleteLocal ==
  /\ upc = "cl_delete"
  /\ \E ok \in BOOLEAN :
       /\ Exec(DeleteBranchCmd(branch), ok)
       /\ warnings' = IF ok THEN warnings
                      ELSE Append(warnings, CommandFailedError(DeleteBranchCmd(branch)))
       /\ result' = Err(rethrown(thrown, warnings'))
  /\ upc' = "returned"
  /\ inflight' = afterReturn(inflight, upc')
  /\ UNCHANGED <<mainVars, symrefOut, repo, branch, pm, defaultBranch, branchCreated,
                 branchPushed, statusOut, prOut, thrown>>

\* -------------------------------------------------------------- dryRunRepo
stepsWithSymRef(r, d, b, db) ==
  << "git symbolic-ref refs/remotes/origin/HEAD",
     "git checkout " \o db,
     "git pull",
     "git checkout -b " \o b,
     Join(getUpdateCommand(detectPackageManager(r)), " "),
     Join(getInstallCommand(detectPackageManager(r)), " "),
     "git status --porcelain",
     "git add -A",
     "git commit -m \"dep updates " \o d \o "\"",
     "git push -u origin " \o b,
     "gh pr create --title \"Dep Updates " \o d \o "\" --body \"Dep Updates "
       \o d \o "\"" >>

\* the steps array of dryRunRepo(repo, date, branch, defaultBranch): the lines
\* it prints, each after the prefix "  [dry-run] "
steps(r, d, b, db) ==
  << "git checkout " \o db,
     "git pull",
     "git checkout -b " \o b,
     Join(getUpdateCommand(detectPackageManager(r)), " "),
     Join(getInstallCommand(detectPackageManager(r)), " "),
     "git status --porcelain",
     "git add -A",
     "git commit -m \"dep updates " \o d \o "\"",
     "git push -u origin " \o b,
     "gh pr create --title \"Dep Updates " \o d \o "\" --body \"Dep Updates "
       \o d \o "\"" >>

dryRunRepoNoChanges(r) == Ok([repo |-> r, status |-> "no-changes"])

\* dryRunRepo prints the steps and returns the placeholder outcome; it
\* never calls the executor.
dryRunRepo(r) ==
  Ok([repo |-> r, status |-> "pr-created", prUrl |-> PlaceholderUrl])

\* ------------------------------------------------------------------- main
RepoLists == UNION { [1..n -> Paths] : n \in 0..MaxRepos }

\* loadConfig(args.configPath) as resolveRepos sees it
ConfigOutcomes ==
  { [kind |-> "err"],
    [kind |-> "ok", repos |-> <<>>],
    [kind |-> "ok", repos |-> <<"/r2", "/missing">>] }

RECURSIVE SelectSeq2(_, _)
SelectSeq2(s, keep) ==
  IF s = <<>> THEN <<>>
  ELSE IF s[1] \in keep THEN <<s[1]>> \o SelectSeq2(Tail(s), keep)
  ELSE SelectSeq2(Tail(s), keep)

validateReposNoGitCheck(repos) ==
  [ valid |-> SelectSeq2(repos, { p \in Paths : existsSync(p) }),
    missing |-> SelectSeq2(repos, { p \in Paths : ~existsSync(p) }),
    notGit |-> <<>> ]

\* config.ts validateRepos: missing / notGit / valid, each in input order
validateRepos(repos) ==
  [ valid |-> SelectSeq2(repos, { p \in Paths : existsSync(p) /\ hasDotGit(p) }),
    missing |-> SelectSeq2(repos, { p \in Paths : ~existsSync(p) }),
    notGit |-> SelectSeq2(repos, { p \in Paths : existsSync(p) /\ ~hasDotGit(p) }) ]

\* resolveRepos: positional arguments win; null when the config cannot be loaded
resolveReposConfigFirst(a, config) ==
  IF config.kind = "err"
  THEN [null |-> TRUE, repos |-> <<>>, consulted |-> TRUE]
  ELSE IF Len(a.positional) > 0
  THEN [null |-> FALSE, repos |-> a.positional, consulted |-> TRUE]
  ELSE [null |-> FALSE, repos |-> config.repos, consulted |-> TRUE]

\* (consulted: loadConfig was called)
resolveRepos(a, config) ==
  IF Len(a.positional) > 0
  THEN [null |-> FALSE, repos |-> a.positional, consulted |-> FALSE]
  ELSE IF config.kind = "err"
  THEN [null |-> TRUE, repos |-> <<>>, consulted |-> TRUE]
  ELSE [null |-> FALSE, repos |-> config.repos, consulted |-> TRUE]

\* JavaScript truthiness of result.prUrl (undefined and "" are falsy)
hasPrUrl(r) == "prUrl" \in DOMAIN r /\ Len(r.prUrl) > 0

collectFront(urls, r) == IF hasPrUrl(r) THEN <<r.prUrl>> \o urls ELSE urls

\* handleRepoProcessing: if (result.prUrl) prUrls.push(result.prUrl)
collect(urls, r) == IF hasPrUrl(r) THEN Append(urls, r.prUrl) ELSE urls

afterRepoAbort(i, n, ret) == IF ret.status = "failed" THEN n ELSE i + 1

\* for (const repo of valid): the loop goes on to the next repository
\* whatever processRepo returned
afterRepo(i, n, ret) == i + 1

\* what processRepo returns for an updateFn result
processRepoReturn(r, res) ==
  IF res.kind = "ok" THEN res.value ELSE [repo |-> r, status |-> "failed"]

BlankRunKeepsFlags ==
  /\ upc' = "idle"
  /\ repo' = ""
  /\ branch' = ""
  /\ pm' = ""
  /\ defaultBranch' = "main"
  /\ branchCreated' = branchCreated
  /\ branchPushed' = branchPushed
  /\ statusOut' = NotRun
  /\ prOut' = <<>>
  /\ thrown' = NoError
  /\ result' = NoResult
  /\ calls' = <<>>
  /\ failedCalls' = {}
  /\ warnings' = <<>>
  /\ symrefOut' = NotRunSeq

BlankRun ==
  /\ upc' = "idle"
  /\ repo' = ""
  /\ branch' = ""
  /\ pm' = ""
  /\ defaultBranch' = "main"
  /\ branchCreated' = FALSE
  /\ branchPushed' = FALSE
  /\ statusOut' = NotRun
  /\ prOut' = <<>>
  /\ thrown' = NoError
  /\ result' = NoResult
  /\ calls' = <<>>
  /\ failedCalls' = {}
  /\ warnings' = <<>>
  /\ symrefOut' = NotRunSeq

\* no directory is under inspection by detectPackageManager
DetectIdle ==
  /\ lockDir = {}
  /\ detections = <<>>

\* loadConfig, getDate, exec and parseArgs are not under inspection
ConfigIdle ==
  /\ fsys = <<>>
  /\ configPathIn = Undefined
  /\ loaded = NoResult
  /\ configRead = Undefined

DateIdle ==
  /\ now = NoClock
  /\ dateOut = NoDate

ExecIdle ==
  /\ proc = NoProcess
  /\ execOut = NoResult

ArgsIdle ==
  /\ argv = <<>>
  /\ parsed = NoResult

PureIdle == DetectIdle /\ ConfigIdle /\ DateIdle /\ ExecIdle /\ ArgsIdle

\* main has not started: every local of main and updateRepo is unset
InitMain ==
  /\ mpc = "start"
  /\ answer = NoAnswer
  /\ configSeen = Unread
  /\ resolvedRepos = <<>>
  /\ symrefOut = NotRunSeq
  /\ inflight = 0
  /\ dryRunSteps = <<>>
  /\ valid = <<>>
  /\ missing = <<>>
  /\ date = ""
  /\ idx = 0
  /\ prUrls = <<>>
  /\ exitCode = -1
  /\ logWarn = <<>>
  /\ invoked = <<>>
  /\ outcomes = <<>>
  /\ spawned = <<>>
  /\ upc = "idle"
  /\ repo = ""
  /\ branch = ""
  /\ pm = ""
  /\ defaultBranch = "main"
  /\ branchCreated = FALSE
  /\ branchPushed = FALSE
  /\ statusOut = NotRun
  /\ prOut = <<>>
  /\ thrown = NoError
  /\ result = NoResult
  /\ calls = <<>>
  /\ failedCalls = {}
  /\ warnings = <<>>
  /\ head = "main"
  /\ localBranches = {"main"}
  /\ remoteBranches = {}

\* main is not running: the state a function called on its own is checked in
MainIdle ==
  /\ args = [help |-> FALSE, dryRun |-> FALSE, configPath |-> Undefined,
             positional |-> <<>>]
  /\ InitMain

Init ==
  /\ args \in [help : BOOLEAN, dryRun : BOOLEAN, configPath : ConfigPathArgs,
               positional : RepoLists]
  /\ InitMain
  /\ PureIdle

\* main: if (args.help) { printUsage(); process.exit(0); }
MainHelp ==
  /\ mpc = "start"
  /\ args.help
  /\ mpc' = "exited"
  /\ exitCode' = 0
  /\ UNCHANGED <<args, valid, missing, date, idx, prUrls, logWarn, invoked,
                 outcomes, spawned, answer, configSeen, resolvedRepos, dryRunSteps, pureVars,
                 runVars, gitVars>>

noValidReposNever(v) == FALSE

\* if (valid.length === 0) { log.error(...); process.exit(1); }
noValidRepos(v) == Len(v) = 0

\* main from resolveRepos to the call of handleRepoProcessing
MainSetup ==
  /\ mpc = "start"
  /\ ~args.help
  /\ \E config \in ConfigOutcomes, d \in Dates :
       LET resolved == resolveRepos(args, config)
           v == validateRepos(resolved.repos)
       IN /\ configSeen' = IF resolved.consulted THEN config ELSE Unread
          /\ IF resolved.null
             THEN /\ mpc' = "exited" /\ exitCode' = 1
                  /\ UNCHANGED <<valid, missing, date, logWarn, resolvedRepos>>
             ELSE /\ resolvedRepos' = resolved.repos
                  /\ valid' = v.valid
                  /\ missing' = v.missing
                  /\ logWarn' = v.missing
                  /\ IF noValidRepos(v.valid)
                     THEN mpc' = "exited" /\ exitCode' = 1 /\ date' = date
                     ELSE mpc' = "batch" /\ exitCode' = exitCode /\ date' = d
  /\ UNCHANGED <<args, idx, prUrls, invoked, outcomes, spawned, answer,
                 dryRunSteps, pureVars, runVars, gitVars>>

\* One iteration of handleRepoProcessing in dry-run mode: processRepo awaits
\* updateFn({repo, date, dryRun: true}), which resolves to dryRunRepo(...)
ProcessRepoDryRun ==
  /\ mpc = "batch"
  /\ upc = "idle"
  /\ idx < Len(valid)
  /\ args.dryRun
  /\ LET r == valid[idx + 1]
         ret == processRepoReturn(r, dryRunRepo(r))
     IN /\ invoked' = Append(invoked, <<r, TRUE>>)
        /\ outcomes' = Append(outcomes, ret)
        /\ prUrls' = collect(prUrls, ret)
        /\ idx' = afterRepo(idx, Len(valid), ret)
        /\ \E ts \in Timestamps :
             dryRunSteps' = steps(r, date, branchName(date, ts), "main")
  /\ UNCHANGED <<mpc, args, valid, missing, date, exitCode, logWarn, spawned,
                 answer, configSeen, resolvedRepos, pureVars, runVars, gitVars>>

pipelineNotAwaited(pc) == pc # "symref"

\* for (const repo of valid) { const result = await processRepo(...) }: the
\* loop body runs again only once the previous updateRepo has resolved and
\* its result has been handled
pipelineAwaited(pc) == pc = "idle"

\* processRepo calls updateFn({repo, date, dryRun: false}): updateRepo fixes
\* the branch name and detects the package manager
ProcessRepoStart ==
  /\ mpc = "batch"
  /\ pipelineAwaited(upc)
  /\ idx < Len(valid)
  /\ ~args.dryRun
  /\ invoked' = Append(invoked, <<valid[idx + 1], FALSE>>)
  /\ upc' = "symref"
  /\ repo' = valid[idx + 1]
  /\ \E ts \in Timestamps : branch' = branchName(date, ts)
  /\ pm' = detectPackageManager(valid[idx + 1])
  /\ \E h \in InitialHeads :
       /\ head' = h
       /\ localBranches' = InitialHeads
       /\ remoteBranches' = {}
  /\ inflight' = inflight + 1
  /\ UNCHANGED <<mpc, args, valid, missing, date, idx, prUrls, exitCode,
                 logWarn, outcomes, spawned, answer, configSeen, resolvedRepos,
                 dryRunSteps, pureVars, defaultBranch, branchCreated, branchPushed,
                 statusOut, prOut, thrown, result, calls, failedCalls,
                 warnings, symrefOut>>

\* updateRepo has resolved: the rest of processRepo and of the loop body
ProcessRepoFinish ==
  /\ mpc = "batch"
  /\ upc = "returned"
  /\ LET ret == processRepoReturn(repo, result)
     IN /\ outcomes' = Append(outcomes, ret)
        /\ prUrls' = collect(prUrls, ret)
        /\ idx' = afterRepo(idx, Len(valid), ret)
  /\ BlankRun
  /\ UNCHANGED <<mpc, args, valid, missing, date, exitCode, logWarn, invoked,
                 spawned, answer, configSeen, resolvedRepos, dryRunSteps, pureVars, inflight,
                 gitVars>>

\* main after handleRepoProcessing: if (prUrls.length > 0) handlePRDisplay
MainAfterBatch ==
  /\ mpc = "batch"
  /\ upc = "idle"
  /\ idx = Len(valid)
  /\ mpc' = IF Len(prUrls) > 0 THEN "confirm" ELSE "done"
  /\ UNCHANGED <<args, valid, missing, date, idx, prUrls, exitCode, logWarn,
                 invoked, outcomes, spawned, answer, configSeen, resolvedRepos,
                 dryRunSteps, pureVars, runVars, gitVars>>

\* openURLs: one launch command per URL, chosen by platform
openCmd(platform, url) ==
  IF platform = "win32" THEN <<"cmd", "/c", "start", "", url>>
  ELSE IF platform = "darwin" THEN <<"open", url>>
  ELSE <<"xdg-open", url>>

openURLsFirstOnly(urls, platform) ==
  [i \in 1..Min({1, Len(urls)}) |-> openCmd(platform, urls[i])]

openURLs(urls, platform) == [i \in 1..Len(urls) |-> openCmd(platform, urls[i])]

isCancelNever(a) == FALSE

\* if (isCancel(shouldOpen)) { outro("Cancelled."); process.exit(0); }
isCancel(a) == a = "cancel"

\* handlePRDisplay's confirm() resolved with the user's answer
Confirm ==
  /\ mpc = "confirm"
  /\ \E a \in {"yes", "no", "cancel"}, platform \in Platforms :
       /\ answer' = a
       /\ IF isCancel(a)
          THEN mpc' = "exited" /\ exitCode' = 0 /\ spawned' = spawned
          ELSE /\ mpc' = "done"
               /\ exitCode' = exitCode
               /\ spawned' = IF a = "yes" THEN spawned \o openURLs(prUrls, platform)
                             ELSE spawned
  /\ UNCHANGED <<args, valid, missing, date, idx, prUrls, logWarn, invoked,
                 outcomes, configSeen, resolvedRepos, dryRunSteps, pureVars, runVars, gitVars>>

updateRepo ==
  \/ DetectDefaultBranch
  \/ CheckoutDefault
  \/ Pull
  \/ CreateBranch
  \/ Update
  \/ Install
  \/ Status
  \/ NoChangesCheckout
  \/ NoChangesDelete
  \/ Add
  \/ Commit
  \/ Push
  \/ PrCreate

performCleanup ==
  \/ CleanupCheckout
  \/ CleanupDeleteRemote
  \/ CleanupDeleteLocal

Next ==
  \/ MainHelp
  \/ MainSetup
  \/ ProcessRepoDryRun
  \/ ProcessRepoStart
  \/ updateRepo
  \/ performCleanup
  \/ ProcessRepoFinish
  \/ MainAfterBatch
  \/ Confirm

Spec == Init /\ [][Next]_vars

\* detectPackageManager called on its own: any directory content, the
\* function called repeatedly on the unchanged directory
InitDetect ==
  /\ MainIdle
  /\ lockDir \in SUBSET FileUniverse
  /\ detections = <<>>
  /\ ConfigIdle /\ DateIdle /\ ExecIdle /\ ArgsIdle

\* one call detectPackageManager(dir), where dir holds the files lockDir
Detect ==
  /\ Len(detections) < MaxDetections
  /\ detections' = Append(detections, detectIn(lockDir))
  /\ UNCHANGED <<lockDir, programVars, configVars, dateVars, execVars, argsVars>>

NextDetect == Detect

SpecDetect == InitDetect /\ [][NextDetect]_vars

\* ------------------------------------------------------------- loadConfig
\* the files loadConfig may look at: the one named with -c, and the two
\* default locations join(process.cwd(), CONFIG_FILENAME) and
\* join(homedir(), ".config", "repo-updater", "config.json")
ExplicitConfig == "/cfg.json"
CwdConfig == "<cwd>/repo-updater.config.json"
HomeConfig == "<home>/.config/repo-updater/config.json"
ConfigFiles == {ExplicitConfig, CwdConfig, HomeConfig}

\* the configPath argument: absent, the empty string, or a file name
ConfigPathInputs == {Undefined, "", ExplicitConfig}

\* A file is absent, cannot be read (a directory), holds text that is not
\* JSON, or holds a JSON value.
Absent == [type |-> "absent"]
JsonString(v) == [type |-> "string", value |-> v]
JsonArray(items) == [type |-> "array", items |-> items]
JsonObject(keys, v) == [type |-> "object", keys |-> keys, repos |-> v]
FileContents ==
  { Absent,
    [type |-> "unreadable"],
    [type |-> "not-json"],
    [type |-> "null"],
    [type |-> "number"],
    JsonArray(<<JsonString("/r1")>>),
    JsonObject({}, [type |-> "null"]),
    JsonObject({"repos"}, JsonString("/r1")),
    JsonObject({"repos"}, JsonArray(<<JsonString("/r1"), [type |-> "number"]>>)),
    JsonObject({"repos"}, JsonArray(<<>>)),
    JsonObject({"repos"}, JsonArray(<<JsonString("/r2"), JsonString("/missing")>>)) }

\* existsSync(p): the empty path names no file
fileExists(fs, p) == p \in DOMAIN fs /\ fs[p] # Absent

candidatesWithDefaults(configPath) ==
  IF configPath # Undefined /\ configPath # ""
  THEN <<configPath, CwdConfig, HomeConfig>>
  ELSE <<CwdConfig, HomeConfig>>

\* const candidates = configPath ? [configPath] : [cwd file, home file];
\* the test is JavaScript truthiness: undefined and "" both take the defaults
candidates(configPath) ==
  IF configPath # Undefined /\ configPath # ""
  THEN <<configPath>>
  ELSE <<CwdConfig, HomeConfig>>

\* candidates.find((p) => existsSync(p)), Undefined if none exists
found(configPath, fs) ==
  LET hits == { i \in 1..Len(candidates(configPath)) :
                  fileExists(fs, candidates(configPath)[i]) }
  IN IF hits = {} THEN Undefined ELSE candidates(configPath)[Min(hits)]

\* readFileSync or JSON.parse throws
parseThrows(content) == content.type \in {"unreadable", "not-json"}

rejectedAnyArray(raw) ==
  \/ raw.type = "null"
  \/ raw.type \notin {"object", "array"}
  \/ raw.type = "array"
  \/ "repos" \notin raw.keys
  \/ raw.repos.type # "array"

\* the condition under which loadConfig throws "Config must contain a
\* 'repos' array": !raw, typeof raw !== "object", !("repos" in raw),
\* !Array.isArray(raw.repos), !raw.repos.every(r => typeof r === "string")
rejected(raw) ==
  \/ raw.type = "null"
  \/ raw.type \notin {"object", "array"}
  \/ raw.type = "array"
  \/ "repos" \notin raw.keys
  \/ raw.repos.type # "array"
  \/ \E i \in 1..Len(raw.repos.items) : raw.repos.items[i].type # "string"

ConfigNotFoundError(searched) ==
  [tag |-> "ConfigNotFoundError", searched |-> searched]
ConfigParseError(file) == [tag |-> "ConfigParseError", file |-> file]

\* loadConfig(configPath) on the file system fs; the value parsed from the
\* file is returned as it is
loadConfig(configPath, fs) ==
  LET f == found(configPath, fs)
  IN IF f = Undefined THEN Err(ConfigNotFoundError(candidates(configPath)))
     ELSE IF parseThrows(fs[f]) \/ rejected(fs[f]) THEN Err(ConfigParseError(f))
     ELSE Ok([repos |-> fs[f].repos.items])

\* loadConfig called on its own: any content of the three files, any
\* configPath argument
InitConfig ==
  /\ MainIdle
  /\ fsys \in [ConfigFiles -> FileContents]
  /\ configPathIn \in ConfigPathInputs
  /\ loaded = NoResult
  /\ configRead = Undefined
  /\ DetectIdle /\ DateIdle /\ ExecIdle /\ ArgsIdle

\* one call loadConfig(configPathIn)
LoadConfig ==
  /\ loaded = NoResult
  /\ loaded' = loadConfig(configPathIn, fsys)
  /\ configRead' = found(configPathIn, fsys)
  /\ UNCHANGED <<fsys, configPathIn, programVars, detectVars, dateVars,
                 execVars, argsVars>>

NextConfig == LoadConfig

SpecConfig == InitConfig /\ [][NextConfig]_vars

\* ---------------------------------------------------------------- getDate
\* readings of new Date(): day of the month, month counted from 0, year
Clocks == [date : 1..28, month : 0..11, fullYear : {2025, 2026}]

DecimalDigits == <<"0", "1", "2", "3", "4", "5", "6", "7", "8", "9">>

RECURSIVE String(_)
\* String(n) for a natural number n: its decimal digits
String(n) ==
  IF n < 10 THEN DecimalDigits[n + 1]
  ELSE String(n \div 10) \o DecimalDigits[(n % 10) + 1]

\* String(n).padStart(2, "0"): one digit gets a leading zero
padStart2(n) == IF n < 10 THEN "0" \o String(n) ELSE String(n)

\* getDate: `${dd}-${mm}-${yyyy}` with dd = getDate(), mm = getMonth() + 1
getDate(t) ==
  padStart2(t.date) \o "-" \o padStart2(t.month + 1) \o "-" \o String(t.fullYear)

\* getDate called on its own, at any clock reading
InitDate ==
  /\ MainIdle
  /\ now \in Clocks
  /\ dateOut = NoDate
  /\ DetectIdle /\ ConfigIdle /\ ExecIdle /\ ArgsIdle

\* one call getDate()
GetDate ==
  /\ dateOut = NoDate
  /\ dateOut' = getDate(now)
  /\ UNCHANGED <<now, programVars, detectVars, configVars, execVars, argsVars>>

NextDate == GetDate

SpecDate == InitDate /\ [][NextDate]_vars

\* ------------------------------------------------------------------- exec
\* null, where an exit code is expected
Null == -1

\* what proc.exited of Bun resolves to for a process killed by a signal: not
\* fixed by anything in the repository, either no code or 128 + SIGTERM
BunExitedOnSignal == {Null, 143}

ExecCommands == { <<"git", "pull">>, <<"gh", "pr", "create">> }

\* A spawned process: the runtime exec finds, the command, what the process
\* writes to stderr and stdout, and how it ends: it exits with a code, is
\* killed by a signal, or cannot be spawned at all.
ProcessEndings ==
  { [how |-> "exit", code |-> c] : c \in {0, 1, 2} }
    \cup { [how |-> "signal", code |-> Null], [how |-> "spawn-error", code |-> Null] }

Processes ==
  [runtime : {"bun", "node"}, cmd : ExecCommands, ending : ProcessEndings,
   stdout : { <<"u", " ">> }, stderr : SeqsUpTo(Chars, MaxOutLen)]

SpawnError == "Error: spawn ENOENT"

\* what execBun / execNodejs do: throw, or return the trimmed output and
\* the exit code
Threw(e) == [threw |-> TRUE, e |-> e]
Returns(out, err, code) ==
  [threw |-> FALSE, stdout |-> Trim(out), stderr |-> Trim(err), exitCode |-> code]

\* execBun: Bun.spawn throws if the command cannot be spawned; exitCode is
\* what proc.exited resolves to
execBun(p, exited) ==
  IF p.ending.how = "spawn-error" THEN Threw(SpawnError)
  ELSE Returns(p.stdout, p.stderr,
               IF p.ending.how = "exit" THEN p.ending.code ELSE exited)

\* execNodejs: the "error" event rejects; the "close" event sets
\* exitCode = code ?? 0, and code is null for a process killed by a signal
execNodejs(p) ==
  IF p.ending.how = "spawn-error" THEN Threw(SpawnError)
  ELSE Returns(p.stdout, p.stderr,
               IF p.ending.code = Null THEN 0 ELSE p.ending.code)

\* `${info?.exitCode ?? "unknown"}`
exitText(code) == IF code = Null THEN "unknown" ELSE String(code)

\* the CommandFailedError exec's catch builds
ExecFailure(cmd, code, stderr) ==
  [tag |-> "CommandFailedError",
   message |-> "Command failed: " \o Join(cmd, " ") \o " (exit " \o exitText(code) \o ")",
   command |-> Join(cmd, " "),
   stderr |-> stderr]

\* exec(cmd, cwd): Result.tryPromise around execBun / execNodejs; a non-zero
\* exit code is thrown as ExecError, anything thrown becomes a
\* CommandFailedError (stderr: String(e) when e is no ExecError)
exec(p, exited) ==
  LET r == IF p.runtime = "bun" THEN execBun(p, exited) ELSE execNodejs(p)
  IN IF r.threw THEN Err(ExecFailure(p.cmd, Null, r.e))
     ELSE IF r.exitCode # 0 THEN Err(ExecFailure(p.cmd, r.exitCode, r.stderr))
     ELSE Ok([stdout |-> r.stdout, stderr |-> r.stderr])

\* exec called on its own, for any process
InitExec ==
  /\ MainIdle
  /\ proc \in Processes
  /\ execOut = NoResult
  /\ DetectIdle /\ ConfigIdle /\ DateIdle /\ ArgsIdle

\* one call exec(cmd, cwd), up to the resolution of its promise
ExecCall ==
  /\ execOut = NoResult
  /\ \E exited \in BunExitedOnSignal : execOut' = exec(proc, exited)
  /\ UNCHANGED <<proc, programVars, detectVars, configVars, dateVars, argsVars>>

NextExec == ExecCall

SpecExec == InitExec /\ [][NextExec]_vars

\* -------------------------------------------------------------- parseArgs
\* longest argument list handed to parseArgs
MaxArgs == 3

\* command-line tokens, as sequences of characters
ShortHelp == <<"-", "h">>
LongHelp == <<"-", "-", "h", "e", "l", "p">>
ShortDryRun == <<"-", "n">>
LongDryRun == <<"-", "-", "d", "r", "y", "-", "r", "u", "n">>
ShortConfig == <<"-", "c">>
LongConfig == <<"-", "-", "c", "o", "n", "f", "i", "g">>
Tokens ==
  { ShortHelp, LongHelp, ShortDryRun, LongDryRun, ShortConfig, LongConfig,
    <<"-", "x">>, <<>>, <<"a">>, <<"b", "-">> }

\* configPath when no value was given: undefined
UndefinedPath == <<"(undefined)">>

\* arg.startsWith("-")
startsWithDash(arg) == Len(arg) > 0 /\ arg[1] = "-"

isPositionalAny(arg) == TRUE

\* the last branch of the loop body: else if (!arg.startsWith("-"))
isPositional(arg) == ~startsWithDash(arg)

RECURSIVE parseFrom(_, _, _)
\* the for loop of parseArgs over the iterator, from position i on; -c and
\* --config take the next token of the same iterator with iter.next().value
parseFrom(av, i, acc) ==
  IF i > Len(av) THEN acc
  ELSE IF av[i] = ShortHelp \/ av[i] = LongHelp
  THEN parseFrom(av, i + 1, [acc EXCEPT !.help = TRUE])
  ELSE IF av[i] = ShortDryRun \/ av[i] = LongDryRun
  THEN parseFrom(av, i + 1, [acc EXCEPT !.dryRun = TRUE])
  ELSE IF av[i] = ShortConfig \/ av[i] = LongConfig
  THEN parseFrom(av, i + 2,
                 [acc EXCEPT !.configPath =
                    IF i + 1 <= Len(av) THEN av[i + 1] ELSE UndefinedPath])
  ELSE IF isPositional(av[i])
  THEN parseFrom(av, i + 1, [acc EXCEPT !.positional = Append(@, av[i])])
  ELSE parseFrom(av, i + 1, acc)

parseArgs(av) ==
  parseFrom(av, 1, [help |-> FALSE, dryRun |-> FALSE,
                    configPath |-> UndefinedPath, positional |-> <<>>])

\* parseArgs called on its own, on any argument list
InitArgs ==
  /\ MainIdle
  /\ argv \in SeqsUpTo(Tokens, MaxArgs)
  /\ parsed = NoResult
  /\ DetectIdle /\ ConfigIdle /\ DateIdle /\ ExecIdle

\* one call parseArgs(argv)
ParseArgs ==
  /\ parsed = NoResult
  /\ parsed' = parseArgs(argv)
  /\ UNCHANGED <<argv, programVars, detectVars, configVars, dateVars, execVars>>

NextArgs == ParseArgs

SpecArgs == InitArgs /\ [][NextArgs]_vars

\* ================================================================= claims
Range(f) == { f[i] : i \in DOMAIN f }

\* a non-dry-run updateRepo has resolved and processRepo has not consumed it yet
Returned == upc = "returned"

FirstFailedIdx == Min(failedCalls)
FirstFailed == calls[FirstFailedIdx]
\* the commands issued after the first failing one
CallsAfterFailure == SubSeq(calls, FirstFailedIdx + 1, Len(calls))

OnDefaultBranch == head = defaultBranch
GoneLocally == branch \notin localBranches
GoneRemotely == branch \notin remoteBranches
CleanupSucceeded == warnings = <<>>

\* the steps C2 lists: update, install, status, add, commit, push, gh pr create
PostBranchSteps ==
  { getUpdateCommand(pm), getInstallCommand(pm), StatusCmd, AddCmd,
    CommitCmd(date), PushCmd(branch), PrCreateCmd(date) }

\* C1 as stated: after a non-dry-run updateRepo returns, on every exit path
\* the repository is on its default branch and the working branch is gone
\* locally, and gone from the remote if it was pushed before a failure.
C1_AsStated ==
  Returned =>
    /\ OnDefaultBranch
    /\ GoneLocally
    /\ (result.kind = "err" /\ branchPushed => GoneRemotely)

\* C1 (amended): after a non-dry-run updateRepo returns no-changes, or returns
\* failed after the working branch was created with every cleanup command
\* having succeeded, the repository is on its default branch and the working
\* branch exists neither locally nor on the remote; after a failure before
\* branch creation the working branch was never created and is not checked
\* out; after pr-created the working branch is still checked out and exists
\* locally and on the remote.
C1_ExitStates ==
  Returned =>
    /\ (result.kind = "ok" /\ result.value.status = "no-changes"
          => OnDefaultBranch /\ GoneLocally /\ GoneRemotely)
    /\ (result.kind = "err" /\ branchCreated /\ CleanupSucceeded
          => OnDefaultBranch /\ GoneLocally /\ GoneRemotely)
    /\ (result.kind = "err" /\ ~branchCreated
          => head # branch /\ GoneLocally /\ GoneRemotely)
    /\ (result.kind = "ok" /\ result.value.status = "pr-created"
          => head = branch /\ branch \in localBranches /\ branch \in remoteBranches)

\* the install step failed after branch creation, cleanup succeeded, and the
\* repository, which started on another branch, is back on its default branch
C1_Witness ==
  /\ Returned
  /\ result.kind = "err"
  /\ failedCalls = {6}
  /\ ~branchPushed
  /\ OnDefaultBranch /\ GoneLocally
  /\ defaultBranch = "develop"

\* the cleanup commands issued after a failing step
CleanupInvoked ==
  /\ CheckoutCmd(defaultBranch) \in Range(CallsAfterFailure)
  /\ DeleteBranchCmd(branch) \in Range(CallsAfterFailure)
  /\ (branchPushed => DeleteRemoteCmd(branch) \in Range(CallsAfterFailure))

PostBranchStepFailed ==
  /\ Returned
  /\ failedCalls # {}
  /\ FirstFailedIdx > 4
  /\ FirstFailed \in PostBranchSteps

\* C2 as stated: when a step after branch creation fails, the cleanup commands
\* are invoked and so the repository ends on its default branch with the
\* working branch gone locally, and remotely if it was pushed.
C2_AsStated ==
  PostBranchStepFailed =>
    /\ CleanupInvoked
    /\ OnDefaultBranch /\ GoneLocally
    /\ (branchPushed => GoneRemotely)

\* C2 (amended): when update, install, status, add, commit, push or gh pr
\* create fails, updateRepo invokes git checkout <default> and git branch -D
\* <branch> before returning, and git push origin --delete <branch> when the
\* push step had succeeded; when those cleanup commands succeed, the
\* repository ends on its default branch with the working branch gone
\* locally, and remotely if it was pushed.
C2_CleanupOnFailure ==
  PostBranchStepFailed =>
    /\ CleanupInvoked
    /\ (CleanupSucceeded =>
          OnDefaultBranch /\ GoneLocally /\ (branchPushed => GoneRemotely))

\* gh pr create failed after a successful push and the cleanup removed the
\* branch from the remote
C2_Witness ==
  /\ PostBranchStepFailed
  /\ FirstFailed = PrCreateCmd(date)
  /\ branchPushed
  /\ CleanupSucceeded
  /\ GoneRemotely

StatusWasEmpty == Returned /\ statusOut = ""

NoCommitSteps ==
  Range(calls) \cap { AddCmd, CommitCmd(date), PushCmd(branch), PrCreateCmd(date) } = {}

NoChanges == result.kind = "ok" /\ result.value.status = "no-changes"

\* C3 as stated: whenever git status --porcelain returns empty stdout the
\* outcome is no-changes, no add/commit/push/gh pr create is invoked and the
\* working branch does not exist afterwards.
C3_AsStated ==
  StatusWasEmpty => NoChanges /\ NoCommitSteps /\ GoneLocally /\ GoneRemotely

\* C3 (amended): whenever git status --porcelain returns empty stdout, none of
\* git add, git commit, git push, gh pr create is invoked and the working
\* branch never exists on the remote; if the two commands of the short-circuit
\* (git checkout <default>, git branch -D <branch>) both succeed the outcome
\* is no-changes and the working branch does not exist locally afterwards; if
\* one of them fails the outcome is failed.
C3_NoChangesShortCircuit ==
  StatusWasEmpty =>
    /\ NoCommitSteps
    /\ GoneRemotely
    /\ IF failedCalls = {} THEN NoChanges /\ GoneLocally /\ OnDefaultBranch
       ELSE result.kind = "err"

\* a clean working tree: the short-circuit ran both its commands
C3_Witness ==
  /\ StatusWasEmpty
  /\ NoChanges
  /\ Len(calls) = 9
  /\ calls[9] = DeleteBranchCmd(branch)

\* t is s without its leading and trailing white space, nothing else changed
IsTrimOf(t, s) ==
  \E a \in 0..Len(s) : \E b \in a..Len(s) :
    /\ t = SubSeq(s, a + 1, b)
    /\ \A k \in 1..a : IsSpace(s[k])
    /\ \A k \in (b + 1)..Len(s) : IsSpace(s[k])
    /\ (Len(t) > 0 => ~IsSpace(t[1]) /\ ~IsSpace(t[Len(t)]))

\* C4: when the status step returns non-empty output and every later step
\* succeeds, the outcome is pr-created and prUrl is the stdout of gh pr create
\* with leading and trailing white space removed.
C4_PrCreated ==
  (Returned /\ statusOut \notin {"", NotRun} /\ failedCalls = {}) =>
    /\ result.kind = "ok"
    /\ result.value.status = "pr-created"
    /\ IsTrimOf(result.value.prUrl, prOut)

\* gh printed the URL followed by white space, which was stripped
C4_Witness ==
  /\ Returned
  /\ failedCalls = {}
  /\ result.kind = "ok"
  /\ prOut = <<"u", " ">>
  /\ result.value.prUrl = <<"u">>

\* C5: if git checkout <default> (call 2) or git pull (call 3) fails,
\* updateRepo returns the failed outcome carrying the CommandFailedError of
\* that command, git checkout -b is never invoked and no command at all
\* follows the failing one.
C5_FailureBeforeBranch ==
  \A k \in failedCalls \cap {2, 3} :
    /\ Returned
    /\ result = Err(CommandFailedError(calls[k]))
    /\ result.error.tag = "CommandFailedError"
    /\ calls[k] \in { CheckoutCmd(defaultBranch), PullCmd }
    /\ CreateBranchCmd(branch) \notin Range(calls)
    /\ Len(calls) = k

\* git pull failed
C5_Witness ==
  /\ Returned
  /\ failedCalls = {3}
  /\ calls[3] = PullCmd

\* C6: when a step fails after branch creation and cleanup commands fail too,
\* updateRepo still returns the failed outcome with the error of the step
\* that failed first; every cleanup failure is logged as a warning.
C6_OriginalErrorKept ==
  (Returned /\ branchCreated /\ Cardinality(failedCalls) > 1) =>
    /\ result = Err(CommandFailedError(FirstFailed))
    /\ Len(warnings) = Cardinality(failedCalls) - 1
    /\ \A k \in failedCalls \ {FirstFailedIdx} :
         CommandFailedError(calls[k]) \in Range(warnings)

\* commit failed, then two cleanup commands failed as well
C6_Witness ==
  /\ Returned
  /\ failedCalls # {}
  /\ FirstFailed = CommitCmd(date)
  /\ Len(warnings) = 2
  /\ result.error.command # warnings[2].command

DryRunOutcome(r) ==
  [repo |-> r, status |-> "pr-created", prUrl |-> PlaceholderUrl]

\* C7: with dryRun = true updateRepo never invokes the executor and resolves
\* to a successful pr-created outcome whose prUrl is the placeholder URL.
C7_DryRun ==
  args.dryRun =>
    /\ calls = <<>>
    /\ upc = "idle"
    /\ \A i \in 1..Len(invoked) :
         /\ invoked[i][2] = TRUE
         /\ i <= Len(outcomes) /\ outcomes[i] = DryRunOutcome(invoked[i][1])

\* two repositories went through dry-run
C7_Witness ==
  /\ args.dryRun
  /\ Len(invoked) = 2
  /\ Len(outcomes) = 2

\* C8: in a run of main with --dry-run no external process is spawned, browser
\* launches included, and no placeholder PR URL is collected for opening.
C8_DryRunExecutesNothing ==
  args.dryRun => calls = <<>> /\ spawned = <<>> /\ prUrls = <<>>

\* the outcomes of the repositories before position i
IsPrefix(s, t) == Len(s) <= Len(t) /\ \A i \in 1..Len(s) : s[i] = t[i]

BatchOver == mpc \in {"confirm", "done"} \/ (mpc = "exited" /\ Len(invoked) > 0)

\* C9: the batch invokes the pipeline exactly once for each valid repository,
\* in list order, whatever the outcomes of the earlier repositories; once the
\* batch has started main never exits with an error code.
C9_EveryRepoAttempted ==
  /\ IsPrefix([i \in 1..Len(invoked) |-> invoked[i][1]], valid)
  /\ (BatchOver => Len(invoked) = Len(valid) /\ Len(outcomes) = Len(valid))
  /\ (Len(invoked) > 0 => exitCode # 1)

\* the first repository failed and the second one was still processed
C9_Witness ==
  /\ mpc = "done"
  /\ Len(valid) = 2
  /\ Len(invoked) = 2
  /\ outcomes[1].status = "failed"
  /\ outcomes[2].status # "failed"

RECURSIVE PrCreatedUrls(_)
\* the non-empty PR URLs of the pr-created outcomes, in order
PrCreatedUrls(outs) ==
  IF outs = <<>> THEN <<>>
  ELSE LET o == outs[1]
       IN (IF o.status = "pr-created" /\ o.prUrl # <<>> THEN <<o.prUrl>> ELSE <<>>)
          \o PrCreatedUrls(Tail(outs))

\* C10: the collected PR URL list holds exactly the PR URLs of the
\* repositories whose outcome was pr-created, in repository order; failed and
\* no-changes outcomes contribute nothing (nor does a pr-created outcome
\* whose URL is empty).
C10_CollectedUrls == prUrls = PrCreatedUrls(outcomes)

\* two PRs with different URLs after the batch
C10_Witness ==
  /\ BatchOver
  /\ Len(outcomes) = 2
  /\ Len(prUrls) = 2
  /\ prUrls[1] # prUrls[2]
  /\ ~args.dryRun

\* a browser-launch command ends with the URL it opens
LaunchedUrl(cmd) == cmd[Len(cmd)]

\* C11: a browser-launch command is spawned only after all repositories have
\* been processed and the user has confirmed; on confirmation exactly one
\* launch command is spawned per collected PR URL, in order; when the user
\* declines or cancels, or no PR URL was collected, none is spawned.
C11_BrowserLaunch ==
  /\ (spawned # <<>> =>
        /\ mpc = "done"
        /\ answer = "yes"
        /\ upc = "idle"
        /\ idx = Len(valid)
        /\ Len(outcomes) = Len(valid))
  /\ (mpc = "done" /\ answer = "yes" =>
        /\ Len(spawned) = Len(prUrls)
        /\ \A i \in 1..Len(spawned) : LaunchedUrl(spawned[i]) = prUrls[i])
  /\ (answer # "yes" \/ prUrls = <<>> => spawned = <<>>)

\* the user confirmed and two PR URLs were opened
C11_Witness ==
  /\ mpc = "done"
  /\ answer = "yes"
  /\ Len(prUrls) = 2
  /\ Len(spawned) = 2
  /\ ~args.dryRun

\* the commands of a complete run, as the README lists them
FullSequence ==
  << <<"git", "symbolic-ref", "refs/remotes/origin/HEAD">>,
     <<"git", "checkout", defaultBranch>>,
     <<"git", "pull">>,
     <<"git", "checkout", "-b", branch>>,
     getUpdateCommand(pm),
     getInstallCommand(pm),
     <<"git", "status", "--porcelain">>,
     <<"git", "add", "-A">>,
     <<"git", "commit", "-m", "dep updates " \o date>>,
     <<"git", "push", "-u", "origin", branch>>,
     <<"gh", "pr", "create", "--title", "Dep Updates " \o date,
       "--body", "Dep Updates " \o date>> >>

\* number of the last pipeline step: the first failing command, the status
\* query of a run that found no changes, or the last command so far
LastPipelineStep ==
  Min({Len(calls)} \cup failedCalls \cup (IF statusOut = "" THEN {7} ELSE {}))

\* C12: a non-dry-run updateRepo run in which every command succeeds and the
\* status output is non-empty invokes the executor with exactly the eleven
\* commands of FullSequence, in that order; in any run the pipeline steps
\* issued up to the first failure or the short-circuit are a prefix of it.
C12_CommandSequence ==
  /\ (Returned /\ failedCalls = {} /\ statusOut \notin {"", NotRun} =>
        calls = FullSequence)
  /\ (upc # "idle" =>
        IsPrefix(SubSeq(calls, 1, LastPipelineStep), FullSequence))

\* a complete run: eleven commands, none failed, a PR was created
C12_Witness ==
  /\ Returned
  /\ failedCalls = {}
  /\ Len(calls) = 11
  /\ result.kind = "ok"
  /\ result.value.status = "pr-created"

\* C13 as stated: within one updateRepo run a command whose invocation
\* returned a failure is never invoked again, on any path.
C13_AsStated ==
  \A i \in failedCalls : \A j \in (i + 1)..Len(calls) : calls[j] # calls[i]

\* the commands of the no-changes short-circuit are calls 8 and 9
ShortCircuitCalls == IF statusOut = "" THEN {8, 9} ELSE {}

\* C13 (amended): no pipeline step is issued again after it failed and
\* performCleanup attempts each of its commands at most once; the only
\* command invoked again after its failure is a command of the no-changes
\* short-circuit (git checkout <default>, git branch -D <branch>), which the
\* cleanup that follows its failure issues once more.
C13_NoRetry ==
  /\ \A i \in failedCalls : \A j \in (i + 1)..Len(calls) :
       calls[j] = calls[i] =>
         /\ i \in ShortCircuitCalls
         /\ i = FirstFailedIdx
         /\ \A k \in (i + 1)..Len(calls) : calls[k] = calls[i] => k = j
  /\ failedCalls # {} =>
       \A j, k \in (FirstFailedIdx + 1)..Len(calls) :
         calls[j] = calls[k] => j = k

\* the short-circuit's checkout of the default branch failed and the cleanup
\* issued the same checkout again
C13_Witness ==
  /\ Returned
  /\ statusOut = ""
  /\ failedCalls # {}
  /\ FirstFailedIdx = 8
  /\ calls[9] = calls[8]
  /\ calls[8] = <<"git", "checkout", defaultBranch>>

\* updateRepo is waiting for a command it issued
AwaitingCommand == upc \notin {"idle", "returned"}

\* C14: during batch processing at most one pipeline command is in flight;
\* a command is in flight exactly while updateRepo awaits it, so a step is
\* issued only once the previous one has returned, and while a repository's
\* command is in flight (its first one included) the pipelines of all
\* earlier repositories have returned and been recorded.
C14_OneInFlight ==
  /\ inflight \in {0, 1}
  /\ (inflight = 1 <=> AwaitingCommand)
  /\ (inflight = 1 => Len(invoked) = idx + 1 /\ Len(outcomes) = idx)
  /\ (inflight = 0 /\ upc = "idle" => Len(outcomes) = Len(invoked))

\* the first command of the second repository is in flight after the first
\* repository's pipeline returned
C14_Witness ==
  /\ inflight = 1
  /\ upc = "symref"
  /\ calls = <<>>
  /\ Len(outcomes) = 1
  /\ Len(invoked) = 2

\* the default branch the symbolic-ref stdout stands for
NamedBranch ==
  IF Len(symrefOut) = 2 /\ symrefOut[1] = "refs/remotes/origin/"
  THEN symrefOut[2] ELSE "main"

IsCheckout(cmd) == Len(cmd) = 3 /\ cmd[1] = "git" /\ cmd[2] = "checkout"

\* C15: once the symbolic-ref query has succeeded, the default branch is the
\* <name> of refs/remotes/origin/<name> in its stdout, and main if the stdout
\* holds no such ref; that branch is the one checked out at step 2, by the
\* no-changes short-circuit and by the cleanup after a failure.
C15_DefaultBranch ==
  symrefOut # NotRunSeq =>
    /\ defaultBranch = NamedBranch
    /\ \A k \in 1..Len(calls) : IsCheckout(calls[k]) => calls[k][3] = NamedBranch
    /\ (Len(calls) >= 2 => calls[2] = <<"git", "checkout", NamedBranch>>)
    /\ (statusOut = "" /\ Len(calls) >= 8 =>
          calls[8] = <<"git", "checkout", NamedBranch>>)
    /\ (failedCalls # {} /\ FirstFailedIdx > 4 /\ Len(calls) > FirstFailedIdx =>
          calls[FirstFailedIdx + 1] = <<"git", "checkout", NamedBranch>>)

\* stdout without a ref: main was checked out at step 2 and by the cleanup
\* that followed a failed update
C15_Witness ==
  /\ Returned
  /\ symrefOut = <<"HEAD">>
  /\ failedCalls # {}
  /\ FirstFailedIdx = 5
  /\ calls[2] = <<"git", "checkout", "main">>
  /\ calls[6] = <<"git", "checkout", "main">>

\* C16: if the symbolic-ref query itself fails, updateRepo returns the failed
\* outcome carrying that command's error and has issued no other command: no
\* checkout, no pull, no branch creation and no cleanup.
C16_SymRefFailure ==
  1 \in failedCalls =>
    /\ Returned
    /\ calls = << <<"git", "symbolic-ref", "refs/remotes/origin/HEAD">> >>
    /\ result = [kind |-> "err",
                 error |-> [tag |-> "CommandFailedError",
                            command |-> "git symbolic-ref refs/remotes/origin/HEAD"]]
    /\ warnings = <<>>
    /\ ~branchCreated

\* the query failed and the run is over after that single command
C16_Witness ==
  /\ Returned
  /\ failedCalls = {1}
  /\ Len(calls) = 1
  /\ result.kind = "err"

\* the documented priority: npm, pnpm, yarn, bun, and npm when no lock file
ByPriority(files) ==
  IF "package-lock.json" \in files THEN "npm"
  ELSE IF "pnpm-lock.yaml" \in files THEN "pnpm"
  ELSE IF "yarn.lock" \in files THEN "yarn"
  ELSE IF "bun.lock" \in files THEN "bun"
  ELSE "npm"

C18_BunPreferred ==
  upc # "idle" /\ {"bun.lock", "package-lock.json"} \subseteq lockFilesOf(repo) =>
    /\ pm = "bun"
    /\ (Len(calls) >= 5 => calls[5] = <<"bun", "update", "--latest">>)
    /\ (Len(calls) >= 6 /\ 5 \notin failedCalls => calls[6] = <<"bun", "install">>)

\* the configuration could not be loaded and there was no positional argument
ConfigUnavailable == Len(args.positional) = 0 /\ configSeen.kind = "err"

\* the repository list was resolved and none of its paths is a git repository
ZeroValid ==
  /\ ~ConfigUnavailable
  /\ \A i \in 1..Len(resolvedRepos) : resolvedRepos[i] \notin ValidPaths

MainStarted == mpc # "start"

\* C19: main exits with code 1 exactly when the configuration cannot be
\* loaded and no positional repository was given, or when validation leaves
\* zero valid repositories; on --help it exits with code 0 before loading a
\* configuration or processing a repository; in every other case it sets no
\* error code and runs to completion (or to the cancelled prompt, which
\* exits with code 0), also when every repository's pipeline failed.
C19_ExitCodes ==
  /\ exitCode \in {-1, 0, 1}
  /\ (exitCode = 1 <=>
        MainStarted /\ ~args.help /\ (ConfigUnavailable \/ ZeroValid))
  /\ (exitCode = 1 => mpc = "exited" /\ invoked = <<>>)
  /\ (MainStarted /\ args.help =>
        /\ mpc = "exited"
        /\ exitCode = 0
        /\ configSeen = Unread
        /\ invoked = <<>>)
  /\ (exitCode = 0 => args.help \/ answer = "cancel")
  /\ (mpc = "done" => exitCode = -1 /\ Len(outcomes) = Len(valid))

\* every repository failed and main still completed without an error code
C19_Witness ==
  /\ mpc = "done"
  /\ Len(outcomes) = 2
  /\ \A i \in 1..Len(outcomes) : outcomes[i].status = "failed"
  /\ exitCode = -1

\* C20: with at least one positional argument the repository list is exactly
\* the positional arguments in order and the configuration is never loaded,
\* with or without -c, so main cannot fail for a missing or malformed
\* configuration; the configuration's repos list is the repository list only
\* when there is no positional argument.
C20_PositionalOverride ==
  MainStarted /\ ~args.help =>
    /\ (Len(args.positional) > 0 =>
          /\ resolvedRepos = args.positional
          /\ configSeen = Unread
          /\ (exitCode = 1 =>
                \A i \in 1..Len(args.positional) : args.positional[i] \notin ValidPaths))
    /\ (Len(args.positional) = 0 =>
          /\ configSeen # Unread
          /\ (configSeen.kind = "ok" => resolvedRepos = configSeen.repos))

\* positional arguments together with -c: the batch runs on the positional
\* list and no configuration was loaded
C20_Witness ==
  /\ mpc = "batch"
  /\ Len(args.positional) = 2
  /\ args.configPath # Undefined
  /\ resolvedRepos = args.positional
  /\ configSeen = Unread
  /\ Len(valid) > 0

\* the files loadConfig is to look at, in order, for a configPath argument
SearchList ==
  IF configPathIn \in {Undefined, ""} THEN <<CwdConfig, HomeConfig>>
  ELSE <<configPathIn>>

ExistingCandidates ==
  { i \in 1..Len(SearchList) : fsys[SearchList[i]].type # "absent" }

FirstExisting == SearchList[Min(ExistingCandidates)]

\* the file holds JSON text of an object with a repos array of strings
HoldsRepos(content) ==
  /\ content.type = "object"
  /\ "repos" \in content.keys
  /\ content.repos.type = "array"
  /\ \A i \in 1..Len(content.repos.items) : content.repos.items[i].type = "string"

\* C21: loadConfig returns ConfigNotFoundError exactly when no candidate file
\* exists, ConfigParseError exactly when a candidate exists and the first
\* existing one cannot be read as JSON or does not hold a repos array of
\* strings (for example {}), and a Config, with the strings of that array,
\* exactly when it does; it always returns one of these three.
C21_LoadConfigErrors ==
  loaded # NoResult =>
    /\ loaded.kind \in {"ok", "err"}
    /\ (loaded.kind = "err" =>
          loaded.error.tag \in {"ConfigNotFoundError", "ConfigParseError"})
    /\ (ExistingCandidates = {} <=>
          loaded.kind = "err" /\ loaded.error.tag = "ConfigNotFoundError")
    /\ (ExistingCandidates # {} /\ ~HoldsRepos(fsys[FirstExisting]) <=>
          loaded.kind = "err" /\ loaded.error.tag = "ConfigParseError")
    /\ (ExistingCandidates # {} /\ HoldsRepos(fsys[FirstExisting]) <=>
          loaded.kind = "ok")
    /\ (loaded.kind = "ok" =>
          /\ loaded.value.repos = fsys[FirstExisting].repos.items
          /\ \A i \in 1..Len(loaded.value.repos) :
               loaded.value.repos[i].type = "string")

\* the file found holds {} and loadConfig returned ConfigParseError
C21_Witness ==
  /\ loaded # NoResult
  /\ configRead # Undefined
  /\ fsys[configRead] = JsonObject({}, [type |-> "null"])
  /\ loaded.kind = "err"
  /\ loaded.error.tag = "ConfigParseError"

Exists(p) == p \in ConfigFiles /\ fsys[p].type # "absent"

\* only the file p is looked at: it is read if it exists, and otherwise the
\* search fails having looked for p alone
OnlyConsulted(p) ==
  IF Exists(p) THEN configRead = p
  ELSE /\ configRead = Undefined
       /\ loaded = [kind |-> "err",
                    error |-> [tag |-> "ConfigNotFoundError", searched |-> <<p>>]]

\* the working directory's file is read if it exists, the home directory's
\* only if the first does not exist
DefaultsInOrder ==
  /\ (Exists(CwdConfig) => configRead = CwdConfig)
  /\ (~Exists(CwdConfig) /\ Exists(HomeConfig) => configRead = HomeConfig)
  /\ (~Exists(CwdConfig) /\ ~Exists(HomeConfig) =>
        /\ configRead = Undefined
        /\ loaded = [kind |-> "err",
                     error |-> [tag |-> "ConfigNotFoundError",
                                searched |-> <<CwdConfig, HomeConfig>>]])

\* the file read is the one whose content decides the result
FirstExistingDecides ==
  configRead # Undefined =>
    IF HoldsRepos(fsys[configRead]) THEN loaded.kind = "ok"
    ELSE loaded = [kind |-> "err",
                   error |-> [tag |-> "ConfigParseError", file |-> configRead]]

\* C22 as stated: whenever a config path is given only that path is
\* consulted, even if the file is missing; with no path given the working
\* directory's file is used if it exists and the home directory's otherwise;
\* the first existing candidate is the one parsed.
C22_AsStated ==
  loaded # NoResult =>
    /\ (configPathIn # Undefined => OnlyConsulted(configPathIn))
    /\ (configPathIn = Undefined => DefaultsInOrder)
    /\ FirstExistingDecides

\* C22 (amended): when a non-empty config path is given only that path is
\* consulted and the default locations are never tried, even if the file is
\* missing; when no path is given, or the given path is the empty string,
\* repo-updater.config.json in the working directory is used if it exists
\* and ~/.config/repo-updater/config.json only if the first does not exist;
\* the first existing candidate is the one parsed, even if it is malformed
\* and a later candidate is valid.
C22_SearchOrder ==
  loaded # NoResult =>
    /\ (configPathIn \notin {Undefined, ""} => OnlyConsulted(configPathIn))
    /\ (configPathIn \in {Undefined, ""} => DefaultsInOrder)
    /\ FirstExistingDecides

\* no path given, a malformed file in the working directory and a valid one
\* in the home directory: the first is parsed and the load fails
C22_Witness ==
  /\ loaded # NoResult
  /\ configPathIn = Undefined
  /\ fsys[CwdConfig] = JsonObject({}, [type |-> "null"])
  /\ HoldsRepos(fsys[HomeConfig])
  /\ configRead = CwdConfig
  /\ loaded.kind = "err"

\* main got a repository list from resolveRepos and validated it
Validated == MainStarted /\ ~args.help /\ ~ConfigUnavailable

IsDirectory(p) == p \in {"/r1", "/r2", "/nogit"}
IsGitRepository(p) == p \in {"/r1", "/r2"}

InvokedRepos == [i \in 1..Len(invoked) |-> invoked[i][1]]

TwoDigits(n) == DecimalDigits[(n \div 10) + 1] \o DecimalDigits[(n % 10) + 1]

FourDigits(n) == TwoDigits(n \div 100) \o TwoDigits(n % 100)

\* C24: getDate returns the current local date as YYYY-MM-DD: the four-digit
\* year, the two-digit month and the two-digit day of the month, joined by
\* hyphens in that order.
C24_YearFirst ==
  dateOut # NoDate =>
    dateOut = FourDigits(now.fullYear) \o "-" \o TwoDigits(now.month + 1)
                \o "-" \o TwoDigits(now.date)

\* the argument vectors a fully successful real run with changes passes to
\* the executor, for manager m, date d, working branch b, default branch db
RealRunCommands(m, d, b, db) ==
  << <<"git", "symbolic-ref", "refs/remotes/origin/HEAD">>,
     <<"git", "checkout", db>>,
     <<"git", "pull">>,
     <<"git", "checkout", "-b", b>>,
     getUpdateCommand(m),
     getInstallCommand(m),
     <<"git", "status", "--porcelain">>,
     <<"git", "add", "-A">>,
     <<"git", "commit", "-m", "dep updates " \o d>>,
     <<"git", "push", "-u", "origin", b>>,
     <<"gh", "pr", "create", "--title", "Dep Updates " \o d,
       "--body", "Dep Updates " \o d>> >>

\* a command as a line of text: its arguments separated by spaces, an
\* argument that holds a space (the commit message, the PR title and body)
\* in double quotes
CommandLine(cmd, d) ==
  Join([i \in 1..Len(cmd) |->
          IF cmd[i] \in {"dep updates " \o d, "Dep Updates " \o d}
          THEN "\"" \o cmd[i] \o "\"" ELSE cmd[i]], " ")

CommandLines(cmds, d) == [i \in 1..Len(cmds) |-> CommandLine(cmds[i], d)]

\* the repository the latest updateFn call was for
LastInvoked == invoked[Len(invoked)][1]

DryRunPrinted == dryRunSteps # <<>>

\* C25 as stated: the ordered list of steps dry-run prints for a repository
\* is the ordered list of commands of a fully successful real run on it,
\* with the same branch name, date and manager commands.
C25_AsStated ==
  DryRunPrinted =>
    \E ts \in Timestamps, db \in {"main", "develop"} :
      dryRunSteps =
        CommandLines(RealRunCommands(ByPriority(lockFilesOf(LastInvoked)), date,
                                     "chore/dep-updates-" \o date \o "-" \o ts, db),
                     date)

\* C25 (amended): the steps dry-run prints for a repository are, in order,
\* the ten commands that follow the default-branch query in a fully
\* successful real run with changes, with the same branch name, date and
\* detected manager's update and install commands, and with `main` where the
\* real run has the detected default branch; the symbolic-ref query itself
\* is not among the printed steps.
C25_DryRunSteps ==
  DryRunPrinted =>
    \E ts \in Timestamps :
      dryRunSteps =
        Tail(CommandLines(RealRunCommands(ByPriority(lockFilesOf(LastInvoked)), date,
                                          "chore/dep-updates-" \o date \o "-" \o ts,
                                          "main"),
                          date))

\* a dry run of a bun repository printed its ten steps
C25_Witness ==
  /\ DryRunPrinted
  /\ args.dryRun
  /\ LastInvoked = "/r2"
  /\ Len(dryRunSteps) = 10
  /\ dryRunSteps[1] = "git checkout main"
  /\ dryRunSteps[4] = "bun update --latest"

ExitedWithZero == proc.ending.how = "exit" /\ proc.ending.code = 0

\* the exit codes exec may report: the code the process exited with;
\* "unknown" when there is none, where a runtime that turns the signal into
\* a code may report that code
ReportedExits ==
  IF proc.ending.how = "exit"
  THEN {CASE proc.ending.code = 1 -> "1" [] proc.ending.code = 2 -> "2"
          [] OTHER -> "0"}
  ELSE IF proc.ending.how = "signal" THEN {"unknown", "143"}
  ELSE {"unknown"}

\* C26: exec returns the success variant only when the spawned process
\* exited with code 0; on a non-zero exit, on abnormal termination and on
\* spawn failure it returns a CommandFailedError whose message holds the
\* space-joined command and the exit code ("unknown" when none is known) and
\* whose stderr is the captured, trimmed stderr; it always resolves to one
\* of the two.
C26_ExecResult ==
  execOut # NoResult =>
    /\ execOut.kind \in {"ok", "err"}
    /\ (execOut.kind = "ok" <=> ExitedWithZero)
    /\ (execOut.kind = "err" =>
          /\ execOut.error.tag = "CommandFailedError"
          /\ execOut.error.command = Join(proc.cmd, " ")
          /\ \E x \in ReportedExits :
               execOut.error.message =
                 "Command failed: " \o Join(proc.cmd, " ") \o " (exit " \o x \o ")"
          /\ (proc.ending.how # "spawn-error" =>
                execOut.error.stderr = Trim(proc.stderr)))

Cancelled == answer = "cancel"

\* C27: when the user cancels the confirmation prompt shown after all
\* repositories were processed, the process exits with code 0, no
\* browser-launch command is or was spawned, and the cancellation issues no
\* git or gh command: branches, collected PR URLs and outcomes stay as they
\* were at the prompt, and nothing happens afterwards.
C27_CancelKeepsSideEffects ==
  /\ [](Cancelled =>
          /\ mpc = "exited"
          /\ exitCode = 0
          /\ spawned = <<>>
          /\ inflight = 0
          /\ upc = "idle"
          /\ idx = Len(valid))
  /\ [][Cancelled' =>
          /\ mpc = "confirm"
          /\ UNCHANGED <<gitVars, runVars, prUrls, outcomes, invoked, spawned>>]_vars
  /\ [][~Cancelled]_vars

\* the prompt was cancelled with two pull requests created
C27_Witness ==
  /\ Cancelled
  /\ ~args.dryRun
  /\ Len(prUrls) = 2
  /\ mpc = "exited"

IsConfigFlag(t) ==
  t \in { <<"-", "c">>, <<"-", "-", "c", "o", "n", "f", "i", "g">> }
IsHelpFlag(t) == t \in { <<"-", "h">>, <<"-", "-", "h", "e", "l", "p">> }
IsDryRunFlag(t) ==
  t \in { <<"-", "n">>, <<"-", "-", "d", "r", "y", "-", "r", "u", "n">> }

RECURSIVE ConsumedAt(_)
\* the token at position i is the value of a -c/--config before it (which is
\* not itself such a value)
ConsumedAt(i) ==
  i > 1 /\ IsConfigFlag(argv[i - 1]) /\ ~ConsumedAt(i - 1)

ConfigFlagAt(i) == IsConfigFlag(argv[i]) /\ ~ConsumedAt(i)
ConfigFlags == { i \in 1..Len(argv) : ConfigFlagAt(i) }
Max(S) == CHOOSE x \in S : \A y \in S : y <= x

RECURSIVE PositionalFrom(_)
\* the tokens from position i on that are no value of -c/--config and do
\* not start with '-', in order
PositionalFrom(i) ==
  IF i > Len(argv) THEN <<>>
  ELSE (IF ~ConsumedAt(i) /\ (argv[i] = <<>> \/ argv[i][1] # "-")
        THEN <<argv[i]>> ELSE <<>>) \o PositionalFrom(i + 1)

\* positional and configPath as the claim gives them
PositionalAndConfigPath ==
  /\ parsed.positional = PositionalFrom(1)
  /\ parsed.configPath =
       IF ConfigFlags = {} \/ Max(ConfigFlags) = Len(argv) THEN <<"(undefined)">>
       ELSE argv[Max(ConfigFlags) + 1]

\* C28 as stated: positional holds, in order, the tokens that do not start
\* with '-' and are no value of -c/--config; the token after -c/--config is
\* always consumed as configPath (undefined when -c is last); -h/--help and
\* -n/--dry-run set their flag wherever they appear; other '-' tokens change
\* nothing.
C28_AsStated ==
  parsed # NoResult =>
    /\ PositionalAndConfigPath
    /\ (parsed.help <=> \E i \in 1..Len(argv) : IsHelpFlag(argv[i]))
    /\ (parsed.dryRun <=> \E i \in 1..Len(argv) : IsDryRunFlag(argv[i]))

\* C28 (amended): as stated, except that -h/--help and -n/--dry-run set
\* their flag wherever they appear other than as the value of -c/--config:
\* a flag token that follows -c/--config is consumed as configPath and sets
\* nothing.
C28_ParseArgs ==
  parsed # NoResult =>
    /\ PositionalAndConfigPath
    /\ (parsed.help <=>
          \E i \in 1..Len(argv) : IsHelpFlag(argv[i]) /\ ~ConsumedAt(i))
    /\ (parsed.dryRun <=>
          \E i \in 1..Len(argv) : IsDryRunFlag(argv[i]) /\ ~ConsumedAt(i))

\* -c followed by -h and a positional: -h became configPath, help is unset
C28_Witness ==
  /\ parsed # NoResult
  /\ argv = << <<"-", "c">>, <<"-", "h">>, <<"a">> >>
  /\ parsed.configPath = <<"-", "h">>
  /\ ~parsed.help
  /\ parsed.positional = << <<"a">> >>

\* a pipeline has just been started: its first command is in flight
PipelineStarting == upc = "symref"

PipelineRunning == upc \notin {"idle", "returned"}

PushedAt(j) == calls[j] = <<"git", "push", "-u", "origin", branch>> /\ j \notin failedCalls
CreatedAt(j) == calls[j] = <<"git", "checkout", "-b", branch>> /\ j \notin failedCalls

\* C30: in every state of a pipeline run branchPushed implies branchCreated;
\* branchCreated holds only after `git checkout -b <branch>` succeeded and
\* branchPushed only after `git push -u origin <branch>` succeeded; `git push
\* origin --delete <branch>` is invoked only after a successful push and
\* `git branch -D <branch>` only after a successful branch creation.
C30_BranchFlags ==
  /\ (branchPushed => branchCreated)
  /\ (branchCreated => \E j \in 1..Len(calls) : CreatedAt(j))
  /\ (branchPushed => \E j \in 1..Len(calls) : PushedAt(j))
  /\ \A k \in 1..Len(calls) :
       /\ (calls[k] = <<"git", "push", "origin", "--delete", branch>> =>
             \E j \in 1..(k - 1) : PushedAt(j))
       /\ (calls[k] = <<"git", "branch", "-D", branch>> =>
             \E j \in 1..(k - 1) : CreatedAt(j))

\* gh pr create failed after the push: the cleanup deleted the remote branch
C30_Witness ==
  /\ Returned
  /\ branchPushed
  /\ failedCalls = {11}
  /\ calls[13] = <<"git", "push", "origin", "--delete", branch>>
  /\ calls[14] = <<"git", "branch", "-D", branch>>

\* performCleanup is running or has run with the branch created
CleanupRan == thrown # NoError /\ branchCreated

\* the commands performCleanup issues, in order
ExpectedCleanup ==
  <<<<"git", "checkout", defaultBranch>>>>
    \o (IF branchPushed THEN <<<<"git", "push", "origin", "--delete", branch>>>> ELSE <<>>)
    \o <<<<"git", "branch", "-D", branch>>>>

\* how many cleanup commands have been issued at each point of performCleanup
CleanupIssued ==
  CASE upc = "cl_checkout" -> 0
    [] upc = "cl_remote" -> 1
    [] upc = "cl_delete" -> Len(ExpectedCleanup) - 1
    [] OTHER -> Len(ExpectedCleanup)

\* C31: when performCleanup runs with the branch created, the commands it
\* issues are git checkout <default> first, then git push origin --delete
\* <branch> exactly if the branch was pushed, then git branch -D <branch>, in
\* that order and whichever of them fail: at each point of the cleanup the
\* commands issued so far are the first ones of that list, and when
\* updateRepo returns all of them have been attempted.
C31_CleanupOrdered ==
  CleanupRan =>
    /\ upc \in {"cl_checkout", "cl_remote", "cl_delete", "returned"}
    /\ CallsAfterFailure = SubSeq(ExpectedCleanup, 1, CleanupIssued)
    /\ (Returned => CallsAfterFailure = ExpectedCleanup)

\* gh pr create failed, the cleanup's checkout and remote deletion failed
\* too, and git branch -D was still attempted
C31_Witness ==
  /\ Returned
  /\ CleanupRan
  /\ branchPushed
  /\ failedCalls = {11, 12, 13}
  /\ Len(calls) = 14
  /\ calls[14] = <<"git", "branch", "-D", branch>>

\* the name in a command that names the working branch: git checkout -b,
\* git push -u origin, git branch -D, git push origin --delete
NamesWorkingBranch(cmd) ==
  \/ Len(cmd) = 4 /\ cmd[1] = "git" /\ cmd[2] = "checkout" /\ cmd[3] = "-b"
  \/ Len(cmd) = 4 /\ cmd[1] = "git" /\ cmd[2] = "branch" /\ cmd[3] = "-D"
  \/ Len(cmd) = 5 /\ cmd[1] = "git" /\ cmd[2] = "push" /\ cmd[3] = "-u"
  \/ Len(cmd) = 5 /\ cmd[1] = "git" /\ cmd[2] = "push" /\ cmd[4] = "--delete"

WorkingBranchIn(cmd) == cmd[Len(cmd)]

IsDeletion(cmd) ==
  NamesWorkingBranch(cmd) /\ (cmd[3] = "-D" \/ (Len(cmd) = 5 /\ cmd[4] = "--delete"))

\* C32: within one updateRepo run the working-branch name is the one fixed
\* at the start, chore/dep-updates-<date>-<timestamp>; every command of the
\* run that names the working branch (git checkout -b, git push -u origin,
\* git branch -D, git push origin --delete) carries that name, and a
\* deletion is only issued for the name a successful git checkout -b of the
\* same run created.
C32_OneBranchName ==
  upc # "idle" =>
    /\ \E ts \in Timestamps : branch = "chore/dep-updates-" \o date \o "-" \o ts
    /\ \A k \in 1..Len(calls) :
         NamesWorkingBranch(calls[k]) =>
           /\ WorkingBranchIn(calls[k]) = branch
           /\ (IsDeletion(calls[k]) =>
                 \E j \in 1..(k - 1) :
                   /\ calls[j] = <<"git", "checkout", "-b", WorkingBranchIn(calls[k])>>
                   /\ j \notin failedCalls)

\* the push failed and the cleanup deleted the local branch the run created
C32_Witness ==
  /\ Returned
  /\ failedCalls = {10}
  /\ calls[4] = <<"git", "checkout", "-b", branch>>
  /\ calls[10] = <<"git", "push", "-u", "origin", branch>>
  /\ calls[12] = <<"git", "branch", "-D", branch>>
  /\ Len(calls) = 12

\* every supplied path is missing or not a git repository
NoneIsGitRepository ==
  \A i \in 1..Len(resolvedRepos) : resolvedRepos[i] \notin {"/r1", "/r2"}

\* no pipeline has run, for real or as a dry run
NoPipelineRun ==
  /\ invoked = <<>>
  /\ upc = "idle"
  /\ calls = <<>>
  /\ dryRunSteps = <<>>
  /\ outcomes = <<>>

====
